---- MODULE Spec2Model ----
(***************************************************************************)
(* A model of composer.py (Melody-Generator): the bigram transition model, *)
(* the birthday parameter mapping, the random walk that generates a melody *)
(* and the text corpus I/O.                                                *)
(*                                                                         *)
(* A Python str is modelled as the sequence of its characters, a Python    *)
(* list as a sequence, and a Python dict as the sequence of its            *)
(* <<key, value>> items in insertion order (the order list(d.keys()) and   *)
(* list(d.values()) return them in).                                       *)
(***************************************************************************)
EXTENDS Integers, Sequences, FiniteSets, TLC

VARIABLES
    melody_sequences,   \* build_bigram: the argument
    permuted,           \* build_bigram: the argument of a second call, the same sequences reordered
    bigram,             \* build_bigram: the returned dict
    bigram_perm,        \* build_bigram(permuted)
    birthday,           \* birthday_to_start_note_and_length: the argument
    ymd,                \* the year, month and day the birthday string was typed from
    start_note,         \* the start note derived from the birthday / passed to generate_melody
    length,             \* the length derived from the birthday / passed to generate_melody
    seed,               \* the argument of random.seed: the values random() will return
    rng,                \* the state of the module random: the values still to come
    melody,             \* generate_melody: the local melody
    curr,               \* generate_melody: the local curr
    iter,               \* generate_melody: the iterations of the loop made so far
    draws,              \* generate_melody: the calls of random.choices and random.choice made
    result,             \* generate_melody: the returned melody (<<>> when none was returned)
    call,               \* which call of generate_melody this is (1 or 2)
    first,              \* how the first call of generate_melody ended
    fs_file,            \* the file system: the text file at the path
    fs_folder,          \* the file system: the folder of MIDI files
    saved,              \* save_melodies: the argument melodies
    loaded,             \* load_melodies: the returned list (txt in main)
    midi,               \* extract_melodies_from_midi_folder: the returned list
    pc                  \* the position of the program

bigramVars == <<melody_sequences, permuted, bigram, bigram_perm>>
birthdayVars == <<birthday, ymd>>
paramVars == <<start_note, length>>
genVars == <<seed, rng, melody, curr, iter, draws, result, call, first>>
ioVars == <<fs_file, fs_folder, saved, loaded, midi>>
vars == <<bigramVars, birthdayVars, paramVars, genVars, ioVars, pc>>

-----------------------------------------------------------------------------
(* Bounds of the model *)

MaxSeqs == 2        \* sequences in a training corpus
MaxSeqLen == 3      \* tokens in a training sequence
FirstYear == 1990   \* the earliest year of birth typed in
YearSpan == 12      \* the years of birth are FirstYear..FirstYear + YearSpan
MaxDay == 31        \* the days typed in are 0..MaxDay (the code checks no range)
MaxCount == 2       \* the largest count in a transition model passed to generate_melody
MaxLength == 2      \* the largest length passed to generate_melody
Resolution == 3     \* random() returns one of 0/Resolution .. (Resolution-1)/Resolution
MaxMelodies == 2    \* melodies in a list passed to save_melodies
MaxMelodyLen == 2   \* tokens in a melody passed to save_melodies
MaxFiles == 2       \* entries in the folder of MIDI files

-----------------------------------------------------------------------------
(* Note tokens *)

C4 == <<"C", "4">>
D4 == <<"D", "4">>
E4 == <<"E", "4">>
F4 == <<"F", "4">>
G4 == <<"G", "4">>
A4 == <<"A", "4">>
B4 == <<"B", "4">>
C5 == <<"C", "5">>

\* the corpus of test_bigram_count
TestCorpus == << <<C4, E4, G4, E4>>, <<C4, E4, C5>> >>

CorpusTokens == {C4, E4}

-----------------------------------------------------------------------------
(* Python dict, in insertion order *)

RECURSIVE SumSeq(_)
SumSeq(s) == IF s = <<>> THEN 0 ELSE Head(s) + SumSeq(Tail(s))

DictKeys(d) == [n \in 1..Len(d) |-> d[n][1]]
DictValues(d) == [n \in 1..Len(d) |-> d[n][2]]
KeySet(d) == {d[n][1] : n \in 1..Len(d)}
DictHas(d, k) == k \in KeySet(d)
DictIndex(d, k) == CHOOSE n \in 1..Len(d) : d[n][1] = k
DictGet(d, k) == d[DictIndex(d, k)][2]
DictGetDefault(d, k, default) == IF DictHas(d, k) THEN DictGet(d, k) ELSE default
DictSet(d, k, v) ==
    IF DictHas(d, k)
    THEN [n \in 1..Len(d) |-> IF d[n][1] = k THEN <<k, v>> ELSE d[n]]
    ELSE Append(d, <<k, v>>)

-----------------------------------------------------------------------------
(* build_bigram *)

\* a faulty variant: a new successor replaces the inner dict instead of joining it
CountPairOverwrite(bg, cur_note, nxt_note) ==
    LET inner == IF DictHas(bg, cur_note) THEN DictGet(bg, cur_note) ELSE <<>>
    IN  IF DictHas(inner, nxt_note)
        THEN DictSet(bg, cur_note, DictSet(inner, nxt_note, DictGet(inner, nxt_note) + 1))
        ELSE DictSet(bg, cur_note, << <<nxt_note, 1>> >>)

\* a faulty variant: every pair is counted except the last one of a sequence
PairCountShort(seq) == IF Len(seq) - 2 > 0 THEN Len(seq) - 2 ELSE 0

\* the body of the inner loop: one adjacent pair is counted
CountPair(bg, cur_note, nxt_note) ==
    LET b1 == IF ~DictHas(bg, cur_note) THEN DictSet(bg, cur_note, <<>>) ELSE bg
        inner == DictGet(b1, cur_note)
    IN  DictSet(b1, cur_note,
                DictSet(inner, nxt_note, DictGetDefault(inner, nxt_note, 0) + 1))

\* range(len(seq) - 1) has this many elements
PairCount(seq) == IF Len(seq) - 1 > 0 THEN Len(seq) - 1 ELSE 0

\* the inner loop from index i (0-based, as in the code) on
RECURSIVE CountSeq(_, _, _)
CountSeq(bg, seq, i) ==
    IF i >= PairCount(seq) THEN bg
    ELSE CountSeq(CountPair(bg, seq[i + 1], seq[i + 2]), seq, i + 1)

\* the outer loop from sequence s (1-based) on
RECURSIVE CountSeqs(_, _, _)
CountSeqs(bg, seqs, s) ==
    IF s > Len(seqs) THEN bg
    ELSE CountSeqs(CountSeq(bg, seqs[s], 0), seqs, s + 1)

build_bigram(seqs) == CountSeqs(<<>>, seqs, 1)

-----------------------------------------------------------------------------
(* The variables a specification does not use keep these values *)

IdleBigram ==
    /\ melody_sequences = <<>>
    /\ permuted = <<>>
    /\ bigram = <<>>
    /\ bigram_perm = <<>>
IdleBirthday ==
    /\ birthday = <<>>
    /\ ymd = <<0, 0, 0>>
IdleParams ==
    /\ start_note = <<>>
    /\ length = 0
NoFile == [dir |-> TRUE, exists |-> FALSE, content |-> <<>>]
NoFolder == [exists |-> FALSE, entries |-> <<>>]
IdleIO ==
    /\ fs_file = NoFile
    /\ fs_folder = NoFolder
    /\ saved = <<>>
    /\ loaded = <<>>
    /\ midi = <<>>
IdleGen ==
    /\ seed = <<>>
    /\ rng = <<>>
    /\ melody = <<>>
    /\ curr = <<>>
    /\ iter = 0
    /\ draws = <<>>
    /\ result = <<>>
    /\ call = 1
    /\ first = <<>>

-----------------------------------------------------------------------------
(* The specification of build_bigram: every corpus within the bounds, and  *)
(* every order of its sequences.                                           *)

SeqsUpTo(S, n) == UNION {[1..k -> S] : k \in 0..n}

TrainingSequences == SeqsUpTo(CorpusTokens, MaxSeqLen)
Corpora == SeqsUpTo(TrainingSequences, MaxSeqs) \cup {TestCorpus}

Reorderings(n) == {p \in [1..n -> 1..n] : \A a, b \in 1..n : p[a] = p[b] => a = b}

InitBigram ==
    /\ melody_sequences \in Corpora
    /\ permuted = <<>>
    /\ bigram = <<>>
    /\ bigram_perm = <<>>
    /\ pc = "build"
    /\ IdleBirthday
    /\ IdleParams
    /\ IdleGen
    /\ IdleIO

Build ==
    /\ pc = "build"
    /\ bigram' = build_bigram(melody_sequences)
    /\ pc' = "build_permuted"
    /\ UNCHANGED <<melody_sequences, permuted, bigram_perm, birthdayVars, paramVars, genVars, ioVars>>

\* build_bigram is called on the same sequences in any other order
BuildPermuted ==
    /\ pc = "build_permuted"
    /\ \E p \in Reorderings(Len(melody_sequences)) :
          /\ permuted' = [n \in 1..Len(melody_sequences) |-> melody_sequences[p[n]]]
          /\ bigram_perm' = build_bigram(permuted')
    /\ pc' = "built"
    /\ UNCHANGED <<melody_sequences, bigram, birthdayVars, paramVars, genVars, ioVars>>

NextBigram == Build \/ BuildPermuted

SpecBigram == InitBigram /\ [][NextBigram]_vars

(* Python's == on two dicts of dicts: the same keys with equal values,     *)
(* whatever the insertion order.                                           *)
AsMapping(d) ==
    [k \in KeySet(d) |->
        [j \in KeySet(DictGet(d, k)) |-> DictGet(DictGet(d, k), j)]]
DictEqual(d, e) ==
    /\ Cardinality(KeySet(d)) = Len(d)
    /\ Cardinality(KeySet(e)) = Len(e)
    /\ AsMapping(d) = AsMapping(e)

\* the positions <<s, n>> at which a is followed by b in the corpus
Occurrences(seqs, a, b) ==
    UNION {{<<s, n>> : n \in {m \in 1..(Len(seqs[s]) - 1) :
                                  seqs[s][m] = a /\ seqs[s][m + 1] = b}} :
           s \in 1..Len(seqs)}
TokensOf(seqs) == UNION {{seqs[s][n] : n \in 1..Len(seqs[s])} : s \in 1..Len(seqs)}
AdjacentPairs(seqs) ==
    SumSeq([s \in 1..Len(seqs) |-> IF Len(seqs[s]) > 1 THEN Len(seqs[s]) - 1 ELSE 0])

\* C2: the model build_bigram returns has an outer key only with a non-empty
\* inner mapping, every count is >= 1, model[a][b] is exactly the number of
\* positions where a is followed by b (an unobserved pair has no entry, the
\* counts add up to the number of adjacent pairs), and an empty corpus
\* gives an empty model.
C2_BigramCountsObservedPairs ==
    pc # "build" =>
        /\ Cardinality(KeySet(bigram)) = Len(bigram)
        /\ \A n \in 1..Len(bigram) :
              LET a == bigram[n][1]
                  inner == bigram[n][2]
              IN  /\ inner # <<>>
                  /\ Cardinality(KeySet(inner)) = Len(inner)
                  /\ \A m \in 1..Len(inner) :
                        /\ inner[m][2] >= 1
                        /\ inner[m][2] =
                              Cardinality(Occurrences(melody_sequences, a, inner[m][1]))
        /\ \A a, b \in TokensOf(melody_sequences) :
              Occurrences(melody_sequences, a, b) # {} =>
                  DictHas(bigram, a) /\ DictHas(DictGet(bigram, a), b)
        /\ SumSeq([n \in 1..Len(bigram) |-> SumSeq(DictValues(bigram[n][2]))])
              = AdjacentPairs(melody_sequences)
        /\ (melody_sequences = <<>> => bigram = <<>>)

\* a corpus with a sequence too short to hold a pair, and a pair seen twice
C2_Witness ==
    /\ pc # "build"
    /\ \E s \in 1..Len(melody_sequences) : Len(melody_sequences[s]) <= 1
    /\ \E n \in 1..Len(bigram) : \E m \in 1..Len(bigram[n][2]) : bigram[n][2][m][2] = 2

\* C3: build_bigram returns an identical model (same outer keys, same inner
\* keys, same counts) for the corpus and for any reordering of its sequences;
\* and counting two further adjacent pairs in either order gives the same
\* counts.
C3_BuildIsOrderIndependent ==
    /\ pc = "built" => DictEqual(bigram, bigram_perm)
    /\ pc = "build_permuted" =>
          \A a, b, c, d \in CorpusTokens :
              DictEqual(CountPair(CountPair(bigram, a, b), c, d),
                        CountPair(CountPair(bigram, c, d), a, b))

\* the sequences were really reordered: the two dicts were filled in a
\* different order
C3_Witness ==
    /\ pc = "built"
    /\ permuted # melody_sequences
    /\ bigram # bigram_perm
    /\ Len(bigram) = 2

-----------------------------------------------------------------------------
(* birthday_to_start_note_and_length *)

DecimalDigits == <<"0", "1", "2", "3", "4", "5", "6", "7", "8", "9">>

\* str.replace(old, new) for one-character old and new
Replace(str, old, new) == [n \in 1..Len(str) |-> IF str[n] = old THEN new ELSE str[n]]

\* str.split(sep) for a one-character sep: the fields between the separators
RECURSIVE SplitFrom(_, _, _, _)
SplitFrom(str, sep, n, field) ==
    IF n > Len(str) THEN <<field>>
    ELSE IF str[n] = sep THEN <<field>> \o SplitFrom(str, sep, n + 1, <<>>)
    ELSE SplitFrom(str, sep, n + 1, Append(field, str[n]))
Split(str, sep) == SplitFrom(str, sep, 1, <<>>)

\* int(str) for a string of decimal digits; anything else is a ValueError
IsDecimal(str) ==
    /\ str # <<>>
    /\ \A n \in 1..Len(str) : \E v \in 0..9 : DecimalDigits[v + 1] = str[n]
DigitValue(c) == CHOOSE v \in 0..9 : DecimalDigits[v + 1] = c
RECURSIVE IntFrom(_, _, _)
IntFrom(str, n, acc) ==
    IF n > Len(str) THEN acc ELSE IntFrom(str, n + 1, 10 * acc + DigitValue(str[n]))
int(str) == IntFrom(str, 1, 0)

start_candidates == <<C4, D4, E4, F4, G4, A4, B4, C5>>

\* a faulty variant: the month picks the start note
StartNoteFromMonth(y, m, d) == start_candidates[(m % Len(start_candidates)) + 1]

StartNoteOf(y, m, d) == start_candidates[(d % Len(start_candidates)) + 1]
LengthOf(y, m, d) == 8 + (y % 12)

\* y, m, d = map(int, birthday.replace("/", "-").split("-")) raises ValueError
\* unless there are exactly three fields, each an integer literal
BirthdayFields(str) == Split(Replace(str, "/", "-"), "-")
BirthdayParses(str) ==
    /\ Len(BirthdayFields(str)) = 3
    /\ \A n \in 1..3 : IsDecimal(BirthdayFields(str)[n])

-----------------------------------------------------------------------------
(* The specification of birthday_to_start_note_and_length: the birthdays   *)
(* typed as YYYY-MM-DD or YYYY/MM/DD (or a mix), and strings with a field  *)
(* missing.                                                                *)

RECURSIVE Decimal(_, _)
Decimal(n, width) ==
    IF width = 0 THEN <<>>
    ELSE Append(Decimal(n \div 10, width - 1), DecimalDigits[(n % 10) + 1])

InitBirthday ==
    /\ \E y \in FirstYear..(FirstYear + YearSpan), m \in 1..12, d \in 0..MaxDay :
       \E sep1, sep2 \in {<<"-">>, <<"/">>, <<>>} :
          /\ ymd = <<y, m, d>>
          /\ birthday = Decimal(y, 4) \o sep1 \o Decimal(m, 2) \o sep2 \o Decimal(d, 2)
    /\ IdleParams
    /\ IdleBigram
    /\ IdleGen
    /\ IdleIO
    /\ pc = "derive"

Derive ==
    /\ pc = "derive"
    /\ BirthdayParses(birthday)
    /\ LET f == BirthdayFields(birthday)
           y == int(f[1])
           m == int(f[2])
           d == int(f[3])
       IN  /\ start_note' = StartNoteOf(y, m, d)
           /\ length' = LengthOf(y, m, d)
    /\ pc' = "derived"
    /\ UNCHANGED <<bigramVars, birthdayVars, genVars, ioVars>>

DeriveRaises ==
    /\ pc = "derive"
    /\ ~BirthdayParses(birthday)
    /\ pc' = "ValueError"
    /\ UNCHANGED <<bigramVars, birthdayVars, paramVars, genVars, ioVars>>

NextBirthday == Derive \/ DeriveRaises

SpecBirthday == InitBirthday /\ [][NextBirthday]_vars

\* C4: the start note is ["C4","D4","E4","F4","G4","A4","B4","C5"][day mod 8]
\* and the length is 8 + (year mod 12), whatever the month; the length is in
\* 8..19, and 2000-01-15 gives ("C5", 16).
C4_BirthdayToStartNoteAndLength ==
    pc = "derived" =>
        LET y == ymd[1]
            d == ymd[3]
        IN  /\ start_note = <<C4, D4, E4, F4, G4, A4, B4, C5>>[(d % 8) + 1]
            /\ length = 8 + (y % 12)
            /\ length \in 8..19
            /\ (y = 2000 /\ d = 15 => start_note = C5 /\ length = 16)

\* 2000/01-15 was typed and derived
C4_Witness ==
    /\ pc = "derived"
    /\ ymd = <<2000, 1, 15>>
    /\ birthday = <<"2", "0", "0", "0", "/", "0", "1", "-", "1", "5">>
    /\ start_note = C5
    /\ length = 16

-----------------------------------------------------------------------------
(* The module random.  Its state is the sequence of values random() is     *)
(* still to return, each r standing for the float r / Resolution of        *)
(* [0, 1); random.seed fixes that sequence, and every draw takes its head. *)

\* itertools.accumulate(weights)
CumWeights(weights) == [n \in 1..Len(weights) |-> SumSeq(SubSeq(weights, 1, n))]

\* bisect(cum_weights, random() * total, 0, hi) with hi = len - 1: the first
\* position whose cumulative weight exceeds the value, at most the last one
Bisect(cum, r, total) ==
    LET above == {n \in 1..(Len(cum) - 1) : r * total < cum[n] * Resolution}
    IN  IF above = {} THEN Len(cum)
        ELSE CHOOSE n \in above : \A m \in above : n <= m

\* random.choices(population, weights, k=1)[0]
random_choices(population, weights, r) ==
    LET cum == CumWeights(weights)
    IN  population[Bisect(cum, r, cum[Len(cum)])]

\* random.choice(seq) of a non-empty seq; it raises IndexError on an empty one
random_choice(seq, r) == seq[((r * Len(seq)) \div Resolution) + 1]

weighted_choice(dic, r) == random_choices(DictKeys(dic), DictValues(dic), r)

-----------------------------------------------------------------------------
(* generate_melody *)

\* a faulty variant: the melody is a mutable default that outlives the call
InitialMelodyKept == Append(melody, start_note)

\* a faulty variant: a note that repeats the one before it is not appended
AppendUnlessRepeated(mel, note) == IF mel[Len(mel)] = note THEN mel ELSE Append(mel, note)

\* a faulty variant: range(length - 1)
LoopContinuesOneShort(n, len) == n < len - 1

\* a faulty variant: the fallback draws among the tokens seen as a successor
FallbackAmongSuccessors(bg) ==
    LET RECURSIVE Successors(_)
        Successors(n) == IF n > Len(bg) THEN <<>>
                         ELSE DictKeys(bg[n][2]) \o Successors(n + 1)
    IN  Successors(1)

\* a faulty variant: the weighted draw is made among all the keys of the model
AllKeysEqually(bg, cur) == [n \in 1..Len(bg) |-> <<bg[n][1], 1>>]

\* melody = [start_note]
InitialMelody == <<start_note>>

\* melody.append(curr)
AppendNote(mel, note) == Append(mel, note)

\* for _ in range(length), after n iterations
LoopContinues(n, len) == n < len

\* curr in bigram and bigram[curr]
HasSuccessors(bg, cur) == DictHas(bg, cur) /\ DictGet(bg, cur) # <<>>

\* bigram[curr], the argument of weighted_choice
SuccessorsOf(bg, cur) == DictGet(bg, cur)

\* list(bigram.keys()), the argument of random.choice
FallbackPopulation(bg) == DictKeys(bg)

\* random.seed(seed)
Seed ==
    /\ pc = "seed"
    /\ rng' = seed
    /\ pc' = "call"
    /\ UNCHANGED <<bigramVars, birthdayVars, paramVars, ioVars, seed, melody, curr, iter,
                   draws, result, call, first>>

\* generate_melody(bigram, start_note, length) is entered
GenCall ==
    /\ pc = "call"
    /\ melody' = InitialMelody
    /\ curr' = start_note
    /\ iter' = 0
    /\ draws' = <<>>
    /\ result' = <<>>
    /\ pc' = "loop"
    /\ UNCHANGED <<bigramVars, birthdayVars, paramVars, ioVars, seed, rng, call, first>>

\* one iteration, through the if branch
GenStepWeighted ==
    /\ pc = "loop"
    /\ LoopContinues(iter, length)
    /\ HasSuccessors(bigram, curr)
    /\ LET dic == SuccessorsOf(bigram, curr)
           nxt == weighted_choice(dic, Head(rng))
       IN  /\ curr' = nxt
           /\ melody' = AppendNote(melody, nxt)
           /\ draws' = Append(draws, [sampler |-> "choices",
                                       population |-> DictKeys(dic),
                                       weights |-> DictValues(dic)])
    /\ rng' = Tail(rng)
    /\ iter' = iter + 1
    /\ UNCHANGED <<bigramVars, birthdayVars, paramVars, ioVars, seed, result, call, first, pc>>

\* one iteration, through the else branch
GenStepFallback ==
    /\ pc = "loop"
    /\ LoopContinues(iter, length)
    /\ ~HasSuccessors(bigram, curr)
    /\ FallbackPopulation(bigram) # <<>>
    /\ LET nxt == random_choice(FallbackPopulation(bigram), Head(rng))
       IN  /\ curr' = nxt
           /\ melody' = AppendNote(melody, nxt)
    /\ draws' = Append(draws, [sampler |-> "choice",
                                population |-> FallbackPopulation(bigram),
                                weights |-> <<>>])
    /\ rng' = Tail(rng)
    /\ iter' = iter + 1
    /\ UNCHANGED <<bigramVars, birthdayVars, paramVars, ioVars, seed, result, call, first, pc>>

\* the else branch when the model has no key: random.choice([]) raises
\* IndexError, which generate_melody does not catch
GenRaise ==
    /\ pc = "loop"
    /\ LoopContinues(iter, length)
    /\ ~HasSuccessors(bigram, curr)
    /\ FallbackPopulation(bigram) = <<>>
    /\ draws' = Append(draws, [sampler |-> "choice",
                                population |-> FallbackPopulation(bigram),
                                weights |-> <<>>])
    /\ pc' = "IndexError"
    /\ UNCHANGED <<bigramVars, birthdayVars, paramVars, ioVars, seed, rng, melody, curr, iter,
                   result, call, first>>

\* return melody
GenReturn ==
    /\ pc = "loop"
    /\ ~LoopContinues(iter, length)
    /\ result' = melody
    /\ pc' = "returned"
    /\ UNCHANGED <<bigramVars, birthdayVars, paramVars, ioVars, seed, rng, melody, curr, iter,
                   draws, call, first>>

\* the caller keeps how the first call ended, and makes the same call again
\* after seeding the module random as before
CallAgain ==
    /\ pc \in {"returned", "IndexError"}
    /\ call = 1
    /\ first' = <<pc, result>>
    /\ call' = 2
    /\ pc' = "seed"
    /\ UNCHANGED <<bigramVars, birthdayVars, paramVars, ioVars, seed, rng, melody, curr, iter,
                   draws, result>>

-----------------------------------------------------------------------------
(* The specification of generate_melody: every transition model within the *)
(* bounds (an empty one, an empty inner dict and an unseen start note      *)
(* included), every length and every seed.                                 *)

KeyOrder == <<C4, E4>>
StartNotes == {C4, G4}

\* the dict of a mapping f, its keys inserted in the order of KeyOrder
RECURSIVE DictFrom(_, _)
DictFrom(f, n) ==
    IF n > Len(KeyOrder) THEN <<>>
    ELSE (IF KeyOrder[n] \in DOMAIN f THEN << <<KeyOrder[n], f[KeyOrder[n]]>> >> ELSE <<>>)
         \o DictFrom(f, n + 1)
MappingsTo(V) == UNION {[K -> V] : K \in SUBSET {KeyOrder[n] : n \in 1..Len(KeyOrder)}}
InnerDicts == {DictFrom(f, 1) : f \in MappingsTo(1..MaxCount)}
Models ==
    {DictFrom(g, 1) : g \in MappingsTo(InnerDicts)}
        \cup {build_bigram(TestCorpus),
              << <<E4, << <<E4, 1>>, <<C4, 1>> >> >>, <<C4, << <<E4, 2>> >> >> >>}

NonNegative(n) == IF n > 0 THEN n ELSE 0

InitGen ==
    /\ IdleBirthday
    /\ IdleIO
    /\ melody_sequences = <<>>
    /\ permuted = <<>>
    /\ bigram_perm = <<>>
    /\ bigram \in Models
    /\ start_note \in StartNotes
    /\ length \in (-1)..MaxLength
    /\ seed \in [1..NonNegative(length) -> 0..(Resolution - 1)]
    /\ rng = <<>>
    /\ melody = <<>>
    /\ curr = <<>>
    /\ iter = 0
    /\ draws = <<>>
    /\ result = <<>>
    /\ call = 1
    /\ first = <<>>
    /\ pc = "seed"

NextGen ==
    \/ Seed
    \/ GenCall
    \/ GenStepWeighted
    \/ GenStepFallback
    \/ GenRaise
    \/ GenReturn
    \/ CallAgain

SpecGen == InitGen /\ [][NextGen]_vars

\* C1: whenever generate_melody returns for a length >= 0, the melody has
\* exactly length + 1 tokens and starts with the start token; the loop has
\* then run exactly length times, appending one token each time.
C1_MelodyHasLengthPlusOneTokens ==
    /\ (pc = "returned" /\ length >= 0) =>
          /\ Len(result) = length + 1
          /\ result[1] = start_note
          /\ iter = length
    /\ pc = "loop" => Len(melody) = iter + 1 /\ melody[1] = start_note

\* a melody of three tokens was returned for length 2
C1_Witness ==
    /\ pc = "returned"
    /\ length = 2
    /\ Len(result) = 3
    /\ Len(draws) = 2

\* C5: with a model of zero keys and length >= 1 the call fails on its first
\* fallback draw, before any token is appended, and returns no melody (the
\* failure is the IndexError of random.choice on an empty list); with
\* length = 0 it returns [start] without failing; the call fails only where
\* a fallback draw was attempted on a model without keys.
C5_EmptyModelFailsOnFirstDraw ==
    /\ (bigram = <<>> /\ length >= 1) =>
          /\ pc \in {"seed", "call", "loop", "IndexError"}
          /\ iter = 0
          /\ result = <<>>
          /\ (pc = "loop" => melody = <<start_note>> /\ draws = <<>>)
    /\ (bigram = <<>> /\ length = 0) =>
          /\ pc # "IndexError"
          /\ (pc = "returned" => result = <<start_note>> /\ draws = <<>>)
    /\ pc = "IndexError" =>
          /\ bigram = <<>>
          /\ length >= 1
          /\ result = <<>>
          /\ draws = <<[sampler |-> "choice", population |-> <<>>, weights |-> <<>>]>>

\* the call on an empty model failed
C5_Witness ==
    /\ pc = "IndexError"
    /\ bigram = <<>>
    /\ length >= 1
    /\ call = 1

\* C6: at every step whose current token is no key of the model, or a key
\* with an empty inner mapping, the draw is random.choice over all the
\* outer keys of the model: the weighted sampler is not the one called, the
\* chosen token is an outer key, and every outer key is the outcome for
\* some value of random().
C6_FallbackDrawsAmongAllOuterKeys ==
    \A n \in 1..Len(draws) :
        (n < Len(melody) /\ ~(DictHas(bigram, melody[n]) /\ DictGet(bigram, melody[n]) # <<>>)) =>
            /\ draws[n].sampler = "choice"
            /\ draws[n].population = DictKeys(bigram)
            /\ (n + 1 <= Len(melody) => melody[n + 1] \in KeySet(bigram))
            /\ \A k \in KeySet(bigram) :
                  \E r \in 0..(Resolution - 1) : random_choice(draws[n].population, r) = k

\* a fallback draw from a key whose inner mapping is empty picked, among two
\* outer keys, one that is no successor of anything
C6_Witness ==
    /\ pc = "returned"
    /\ Len(result) >= 2
    /\ bigram = << <<C4, <<>> >>, <<E4, << <<C4, 1>> >> >> >>
    /\ result[1] = C4
    /\ result[2] = E4
    /\ draws[1].sampler = "choice"

\* C7: a second call of generate_melody with the same model, start token and
\* length, made after seeding the module random with the same seed, ends as
\* the first call did: the same melody, or the same failure.
C7_SameSeedSameMelody ==
    (call = 2 /\ pc \in {"returned", "IndexError"}) => first = <<pc, result>>

\* two calls returned the same melody, one that another seed would not give
C7_Witness ==
    /\ call = 2
    /\ pc = "returned"
    /\ first = <<"returned", result>>
    /\ Len(result) = 3
    /\ \E n \in 1..Len(draws) : Len(draws[n].population) >= 2

\* C10: in every returned melody, a token that is a key of the model with a
\* non-empty inner mapping is followed by one of its observed successors (an
\* inner key with count >= 1); for the model built from the test corpus,
\* start "C4" and length 1 the melody is ["C4", "E4"].
C10_NextTokenIsObservedSuccessor ==
    pc = "returned" =>
        /\ \A n \in 1..(Len(result) - 1) :
              (DictHas(bigram, result[n]) /\ DictGet(bigram, result[n]) # <<>>) =>
                  /\ DictHas(DictGet(bigram, result[n]), result[n + 1])
                  /\ DictGet(DictGet(bigram, result[n]), result[n + 1]) >= 1
        /\ (bigram = build_bigram(TestCorpus) /\ start_note = C4 /\ length = 1) =>
              result = <<C4, E4>>

\* the forced melody of the test corpus was returned
C10_Witness ==
    /\ pc = "returned"
    /\ bigram = build_bigram(TestCorpus)
    /\ start_note = C4
    /\ length = 1
    /\ result = <<C4, E4>>

-----------------------------------------------------------------------------
(* save_melodies and load_melodies.  The text file is the sequence of its  *)
(* characters.                                                             *)

\* the characters str.strip() and str.split() take for whitespace
Whitespace == {" ", "\n", "\t", "\r"}

\* sep.join(list)
RECURSIVE Join(_, _)
Join(sep, list) ==
    IF list = <<>> THEN <<>>
    ELSE IF Len(list) = 1 THEN list[1]
    ELSE list[1] \o sep \o Join(sep, Tail(list))

\* a faulty variant: open(path, "a")
OpenForAppend(file) == file.content

\* open(path, "w") truncates the file
OpenForWrite(file) == <<>>

\* the loop of save_melodies: one line per melody, from melody n on
RECURSIVE WriteLines(_, _, _)
WriteLines(content, melodies, n) ==
    IF n > Len(melodies) THEN content
    ELSE WriteLines(content \o Join(<<" ">>, melodies[n]) \o <<"\n">>, melodies, n + 1)

\* f.readlines(): the lines, each with its newline
RECURSIVE ReadLinesFrom(_, _, _)
ReadLinesFrom(content, n, line) ==
    IF n > Len(content) THEN (IF line = <<>> THEN <<>> ELSE <<line>>)
    ELSE IF content[n] = "\n"
         THEN <<Append(line, content[n])>> \o ReadLinesFrom(content, n + 1, <<>>)
         ELSE ReadLinesFrom(content, n + 1, Append(line, content[n]))
ReadLines(content) == ReadLinesFrom(content, 1, <<>>)

\* str.strip()
RECURSIVE StripLeft(_)
StripLeft(str) ==
    IF str # <<>> /\ Head(str) \in Whitespace THEN StripLeft(Tail(str)) ELSE str
RECURSIVE StripRight(_)
StripRight(str) ==
    IF str # <<>> /\ str[Len(str)] \in Whitespace
    THEN StripRight(SubSeq(str, 1, Len(str) - 1)) ELSE str
Strip(str) == StripRight(StripLeft(str))

\* str.split(): the words between runs of whitespace
RECURSIVE SplitWordsFrom(_, _, _)
SplitWordsFrom(str, n, word) ==
    IF n > Len(str) THEN (IF word = <<>> THEN <<>> ELSE <<word>>)
    ELSE IF str[n] \in Whitespace
         THEN (IF word = <<>> THEN <<>> ELSE <<word>>) \o SplitWordsFrom(str, n + 1, <<>>)
         ELSE SplitWordsFrom(str, n + 1, Append(word, str[n]))
SplitWords(str) == SplitWordsFrom(str, 1, <<>>)

\* the file after save_melodies(melodies, path), when the file can be opened
save_melodies(file, melodies) ==
    [file EXCEPT !.exists = TRUE,
                 !.content = WriteLines(OpenForWrite(file), melodies, 1)]

\* what load_melodies(path) returns: [] when open raises FileNotFoundError
load_melodies(file) ==
    IF file.exists
    THEN LET lines == ReadLines(file.content)
         IN  [n \in 1..Len(lines) |-> SplitWords(Strip(lines[n]))]
    ELSE <<>>

-----------------------------------------------------------------------------
(* The specification of save_melodies and load_melodies: a path with or    *)
(* without an earlier save, in a directory that exists or not, and every   *)
(* list of melodies within the bounds, with some of tokens that are empty  *)
(* or hold a space.                                                        *)

Cs5 == <<"C", "#", "5">>
SavedTokens == {C4, Cs5}

\* the melodies of test_save_and_load
TestData == << <<C4, E4, G4>>, <<A4, B4, C5>> >>

MelodyLists ==
    SeqsUpTo(SeqsUpTo(SavedTokens, MaxMelodyLen), MaxMelodies)
        \cup {TestData,
              << <<C4, <<>>, Cs5>> >>,
              << << <<>> >> >>,
              << << <<"C", " ", "4">> >> >>,
              << <<C4>>, << <<"C", "\n">>, Cs5 >> >>}

InitSaveLoad ==
    /\ IdleBigram
    /\ IdleBirthday
    /\ IdleParams
    /\ seed = <<>> /\ rng = <<>> /\ melody = <<>> /\ curr = <<>> /\ iter = 0
    /\ draws = <<>> /\ result = <<>> /\ first = <<>>
    /\ call = 1
    /\ fs_file \in {NoFile, [NoFile EXCEPT !.dir = FALSE]}
    /\ fs_folder = NoFolder
    /\ saved \in MelodyLists
    /\ loaded = <<>>
    /\ midi = <<>>
    /\ pc \in {"save_earlier", "save", "load"}

\* an earlier save_melodies(test_data, path)
SaveEarlier ==
    /\ pc = "save_earlier"
    /\ fs_file.dir
    /\ fs_file' = save_melodies(fs_file, TestData)
    /\ call' = 2
    /\ pc' = "save"
    /\ UNCHANGED <<bigramVars, birthdayVars, paramVars, seed, rng, melody, curr, iter,
                   draws, result, first, fs_folder, saved, loaded, midi>>

\* save_melodies(saved, path)
Save ==
    /\ pc = "save"
    /\ fs_file.dir
    /\ fs_file' = save_melodies(fs_file, saved)
    /\ pc' = "load"
    /\ UNCHANGED <<bigramVars, birthdayVars, paramVars, genVars, fs_folder, saved,
                   loaded, midi>>

\* open(path, "w") raises FileNotFoundError when the directory is missing
SaveRaises ==
    /\ pc \in {"save_earlier", "save"}
    /\ ~fs_file.dir
    /\ pc' = "FileNotFoundError"
    /\ UNCHANGED <<bigramVars, birthdayVars, paramVars, genVars, ioVars>>

\* load_melodies(path)
Load ==
    /\ pc = "load"
    /\ loaded' = load_melodies(fs_file)
    /\ pc' = "loaded"
    /\ UNCHANGED <<bigramVars, birthdayVars, paramVars, genVars, fs_file, fs_folder,
                   saved, midi>>

NextSaveLoad == SaveEarlier \/ Save \/ SaveRaises \/ Load

SpecSaveLoad == InitSaveLoad /\ [][NextSaveLoad]_vars

\* C9: for melodies whose tokens are non-empty and hold no whitespace,
\* load_melodies after save_melodies on the same path returns the saved list
\* (as many melodies, the same tokens in the same order), also when the path
\* held an earlier save: the second save replaces it.
C9_SaveThenLoadReturnsTheMelodies ==
    (/\ pc = "loaded"
     /\ fs_file.exists
     /\ \A m \in 1..Len(saved) : \A n \in 1..Len(saved[m]) :
           /\ saved[m][n] # <<>>
           /\ \A c \in 1..Len(saved[m][n]) : saved[m][n][c] \notin Whitespace)
        => loaded = saved

\* two melodies, one of them empty, were saved over an earlier save and
\* loaded back
C9_Witness ==
    /\ pc = "loaded"
    /\ call = 2
    /\ saved = << <<C4, Cs5>>, <<>> >>
    /\ loaded = saved
    /\ fs_file.content = <<"C", "4", " ", "C", "#", "5", "\n", "\n">>

-----------------------------------------------------------------------------
(* extract_melodies_from_midi_folder.  An entry of the folder is           *)
(* [mid, readable, instruments]: whether its name ends with ".mid",        *)
(* whether pretty_midi.PrettyMIDI reads it (it raises otherwise) and the   *)
(* instruments read, each [is_drum, notes] with the pitches of its notes.  *)

Semitones == << <<"C">>, <<"C", "#">>, <<"D">>, <<"D", "#">>, <<"E">>, <<"F">>,
                <<"F", "#">>, <<"G">>, <<"G", "#">>, <<"A">>, <<"A", "#">>, <<"B">> >>

\* str(n)
RECURSIVE Str(_)
Str(n) ==
    IF n < 0 THEN <<"-">> \o Str(0 - n)
    ELSE IF n < 10 THEN <<DecimalDigits[n + 1]>>
    ELSE Append(Str(n \div 10), DecimalDigits[(n % 10) + 1])

\* pretty_midi.note_number_to_name
note_number_to_name(pitch) == Semitones[(pitch % 12) + 1] \o Str((pitch \div 12) - 1)

\* the loop over pm.instruments from instrument n on; best = 0 stands for None
RECURSIVE MostActive(_, _, _, _)
MostActive(instruments, n, best, most_notes) ==
    IF n > Len(instruments) THEN best
    ELSE IF instruments[n].is_drum THEN MostActive(instruments, n + 1, best, most_notes)
    ELSE IF Len(instruments[n].notes) > most_notes
         THEN MostActive(instruments, n + 1, n, Len(instruments[n].notes))
         ELSE MostActive(instruments, n + 1, best, most_notes)

\* the body of the loop over os.listdir(folder): melodies after one entry
ExtractEntry(melodies, entry) ==
    IF ~entry.mid THEN melodies
    ELSE IF ~entry.readable THEN melodies
    ELSE LET best == MostActive(entry.instruments, 1, 0, 0)
         IN  IF best = 0 THEN melodies
             ELSE Append(melodies,
                         [n \in 1..Len(entry.instruments[best].notes) |->
                             note_number_to_name(entry.instruments[best].notes[n])])

RECURSIVE ExtractFrom(_, _, _)
ExtractFrom(melodies, entries, n) ==
    IF n > Len(entries) THEN melodies
    ELSE ExtractFrom(ExtractEntry(melodies, entries[n]), entries, n + 1)

\* what extract_melodies_from_midi_folder returns for a folder that exists
extract_melodies_from_midi_folder(folder) == ExtractFrom(<<>>, folder.entries, 1)

-----------------------------------------------------------------------------
(* main, from the loading of the corpus to the transition model: the text  *)
(* file and the folder each exist or not.                                  *)

TextFiles ==
    {save_melodies(NoFile, melodies) : melodies \in {<<>>, TestCorpus, TestData}}
        \cup {[NoFile EXCEPT !.exists = TRUE,
                             !.content = <<"C", "4", " ", " ", "E", "4", "\n", "\n",
                                           " ", "G", "4">>]}

Drums == [is_drum |-> TRUE, notes |-> <<36, 38, 36>>]
Lead == [is_drum |-> FALSE, notes |-> <<60, 64, 61>>]
Bass == [is_drum |-> FALSE, notes |-> <<48, 43>>]
Pad == [is_drum |-> FALSE, notes |-> <<72, 11>>]
Silent == [is_drum |-> FALSE, notes |-> <<>>]

FolderEntries ==
    {[mid |-> FALSE, readable |-> FALSE, instruments |-> <<>>],
     [mid |-> TRUE, readable |-> FALSE, instruments |-> <<>>],
     [mid |-> TRUE, readable |-> TRUE, instruments |-> <<Drums>>],
     [mid |-> TRUE, readable |-> TRUE, instruments |-> <<Drums, Bass, Lead>>],
     [mid |-> TRUE, readable |-> TRUE, instruments |-> <<Bass, Pad>>],
     [mid |-> TRUE, readable |-> TRUE, instruments |-> <<Silent>>]}

InitMain ==
    /\ IdleBigram
    /\ IdleBirthday
    /\ IdleParams
    /\ IdleGen
    /\ fs_file \in {NoFile} \cup TextFiles
    /\ fs_folder \in {NoFolder} \cup
          {[exists |-> TRUE, entries |-> e] : e \in SeqsUpTo(FolderEntries, MaxFiles)}
    /\ saved = <<>>
    /\ loaded = <<>>
    /\ midi = <<>>
    /\ pc = "main_load"

\* txt = load_melodies("data/melodies.txt")
MainLoad ==
    /\ pc = "main_load"
    /\ loaded' = load_melodies(fs_file)
    /\ pc' = "main_extract"
    /\ UNCHANGED <<bigramVars, birthdayVars, paramVars, genVars, fs_file, fs_folder,
                   saved, midi>>

\* midi = extract_melodies_from_midi_folder("data/nesmdb_midi/")
MainExtract ==
    /\ pc = "main_extract"
    /\ fs_folder.exists
    /\ midi' = extract_melodies_from_midi_folder(fs_folder)
    /\ pc' = "main_build"
    /\ UNCHANGED <<bigramVars, birthdayVars, paramVars, genVars, fs_file, fs_folder,
                   saved, loaded>>

\* os.listdir(folder) is outside the try: on a folder that does not exist its
\* FileNotFoundError leaves extract_melodies_from_midi_folder and main
MainExtractRaises ==
    /\ pc = "main_extract"
    /\ ~fs_folder.exists
    /\ pc' = "FileNotFoundError"
    /\ UNCHANGED <<bigramVars, birthdayVars, paramVars, genVars, ioVars>>

\* all_data = txt + midi; bigram = build_bigram(all_data)
MainBuild ==
    /\ pc = "main_build"
    /\ melody_sequences' = loaded \o midi
    /\ bigram' = build_bigram(loaded \o midi)
    /\ pc' = "main_built"
    /\ UNCHANGED <<permuted, bigram_perm, birthdayVars, paramVars, genVars, ioVars>>

NextMain == MainLoad \/ MainExtract \/ MainExtractRaises \/ MainBuild

SpecMain == InitMain /\ [][NextMain]_vars

\* C8: loading never fails on a missing source: load_melodies on a path that
\* does not exist and extract_melodies_from_midi_folder on a folder that does
\* not exist each return an empty collection and raise nothing, and main
\* goes on to build the model (an empty one from an empty corpus).
C8_MissingSourcesLoadEmpty ==
    /\ (~fs_file.exists /\ pc # "main_load") => loaded = <<>>
    /\ ~fs_folder.exists =>
          /\ pc # "FileNotFoundError"
          /\ midi = <<>>
    /\ (pc = "main_built" /\ melody_sequences = <<>>) => bigram = <<>>

====
